---- MODULE Spec2Model ----
(***************************************************************************)
(* atlas_exporter: translation of RIPE Atlas measurement results into      *)
(* Prometheus samples by the sslcert and dns exporters                     *)
(* (sslcert/exporter.go, dns/exporter.go).                                 *)
(*                                                                         *)
(* An Export call is a frame (the call's local variables and its position  *)
(* in the code) that advances one statement group at a time; every         *)
(* `ch <- ...` is one step.  Spec runs one call to completion in a single  *)
(* action, SpecConc interleaves the steps of several calls on one          *)
(* translator.                                                             *)
(***************************************************************************)
EXTENDS Integers, Sequences, FiniteSets, TLC

VARIABLES
    m,       \* the translator: an sslCertExporter or a dnsExporter, with its id
    descs,   \* the descriptor table built by init() of the translator's package
    frames,  \* call -> frame of the Export call (locals and position)
    sinks    \* sink -> sequence of what was sent on that channel

vars == <<m, descs, frames, sinks>>

(***************************************************************************)
(* Bounds of the model.                                                    *)
(***************************************************************************)
MaxChain == 2        \* certificate blobs in a result
MaxAnswers == 2      \* answer records in a DNS payload
MaxSubResults == 2   \* sub-results in a multi-target DNS result
MaxCalls == 2        \* Export calls in flight on one translator
MaxBuffered == 6     \* samples a sink holds before a send on it blocks

Calls == 1..MaxCalls
Sinks == 1..2

RECURSIVE SeqsUpTo(_, _)
SeqsUpTo(S, n) ==
    IF n = 0 THEN {<<>>}
    ELSE LET shorter == SeqsUpTo(S, n - 1)
         IN  shorter \cup {Append(q, x) : q \in {t \in shorter : Len(t) = n - 1}, x \in S}

(***************************************************************************)
(* float64 values.  A finite value is kept in tenths (1.2 is 12 tenths);   *)
(* the infinities are what strconv.ParseFloat returns on a range error.    *)
(***************************************************************************)
Tenths(n) == [cls |-> "fin", tenths |-> n]
PosInf == [cls |-> "+inf", tenths |-> 0]
NegInf == [cls |-> "-inf", tenths |-> 0]
Float(n) == Tenths(10 * n)          \* float64(n) of an integer n

\* rtt > 0
GreaterThanZero(v) == v.cls = "+inf" \/ (v.cls = "fin" /\ v.tenths > 0)

\* strconv.Itoa
Itoa(n) == ToString(n)

\* strconv.ParseFloat(s, 64) on the version strings of the model:
\* a syntax error returns 0, a range error returns +-Inf.
ParseFloat(s) ==
    CASE s = "1.2"    -> [f |-> Tenths(12), err |-> "nil"]
      [] s = "1.3"    -> [f |-> Tenths(13), err |-> "nil"]
      [] s = "1e999"  -> [f |-> PosInf, err |-> "ErrRange"]
      [] s = "-1e999" -> [f |-> NegInf, err |-> "ErrRange"]
      [] OTHER        -> [f |-> Tenths(0), err |-> "ErrSyntax"]

(***************************************************************************)
(* Probe metadata (probe.Probe).                                           *)
(***************************************************************************)
Probes ==
    { [ID |-> 6001, ASN4 |-> 3320, ASN6 |-> 3321, CountryCode |-> "DE",
       Lat |-> "52.5200", Long |-> "13.4050"],
      [ID |-> 6002, ASN4 |-> 1299, ASN6 |-> 0, CountryCode |-> "SE",
       Lat |-> "59.3293", Long |-> "18.0686"] }

ASNForIPVersion(p, af) == IF af = 6 THEN p.ASN6 ELSE p.ASN4
Latitude(p) == p.Lat
Longitude(p) == p.Long

(***************************************************************************)
(* Certificate blobs.  A DER value is identified by its bytes (id); it     *)
(* either parses as a certificate with an issuer or does not.  A blob is   *)
(* a string that PEM-decodes, base64-decodes, or does neither.             *)
(***************************************************************************)
DerOrgAndCN  == [id |-> "der-a", cert |-> TRUE,  O |-> <<"Lets Encrypt">>, CN |-> "R3"]
DerCNOnly    == [id |-> "der-b", cert |-> TRUE,  O |-> <<>>, CN |-> "Private Root"]
DerNoNames   == [id |-> "der-c", cert |-> TRUE,  O |-> <<"">>, CN |-> ""]
DerEmptyOrg  == [id |-> "der-d", cert |-> TRUE,  O |-> <<"", "Second Org">>, CN |-> "Other Root"]
DerGarbage   == [id |-> "der-g", cert |-> FALSE, O |-> <<>>, CN |-> ""]

PemOf(der) == [enc |-> "pem", der |-> der]
B64Of(der) == [enc |-> "b64", der |-> der]
BadBlob    == [enc |-> "bad", der |-> DerGarbage]

Blobs ==
    { PemOf(DerOrgAndCN), B64Of(DerOrgAndCN), B64Of(DerCNOnly), PemOf(DerNoNames),
      B64Of(DerEmptyOrg), PemOf(DerGarbage), BadBlob }

\* pem.Decode: block # nil
PemDecodes(raw) == raw.enc = "pem"
\* base64.StdEncoding.DecodeString: err == nil
Base64Decodes(raw) == raw.enc = "b64"
\* x509.ParseCertificate: err == nil
ParsesAsCertificate(der) == der.cert
\* fmt.Sprintf("%x", sha256.Sum256(bytes))
Sha256Hex(der) == "sha256:" \o der.id

\* fingerprintFromResult: only certs[0] is looked at.
fingerprintFromResult(res) ==
    LET certs == res.Cert IN
    IF Len(certs) = 0 THEN ""
    ELSE IF PemDecodes(certs[1]) THEN Sha256Hex(certs[1].der)
    ELSE IF Base64Decodes(certs[1]) THEN Sha256Hex(certs[1].der)
    ELSE ""

\* The mutated issuer choice: the common name is preferred to the organization.
IssuerNameCNFirst(cert) ==
    IF cert.CN # "" THEN cert.CN
    ELSE IF Len(cert.O) > 0 /\ cert.O[1] # "" THEN cert.O[1]
    ELSE "unknown"

\* The issuer of a parsed certificate: Organization[0], else CommonName, else "unknown".
IssuerName(cert) ==
    IF Len(cert.O) > 0 /\ cert.O[1] # "" THEN cert.O[1]
    ELSE IF cert.CN # "" THEN cert.CN
    ELSE "unknown"

\* The body of the loop over certs, from index k on.
RECURSIVE IssuerFrom(_, _)
IssuerFrom(certs, k) ==
    IF k > Len(certs) THEN "unknown"
    ELSE LET raw == certs[k] IN
         IF ~PemDecodes(raw) /\ ~Base64Decodes(raw) THEN IssuerFrom(certs, k + 1)
         ELSE IF ~ParsesAsCertificate(raw.der) THEN IssuerFrom(certs, k + 1)
         ELSE IssuerName(raw.der)

issuerOrgFromResult(res) ==
    IF Len(res.Cert) = 0 THEN "unknown" ELSE IssuerFrom(res.Cert, 1)

(***************************************************************************)
(* Measurement results (measurement.Result and its nested accessors).      *)
(* A nil pointer is a record with nil = TRUE.                              *)
(***************************************************************************)
Nil == [nil |-> TRUE]

Target4 == [DstAddr |-> "192.0.2.53", Af |-> 4]
Target6 == [DstAddr |-> "2001:db8::53", Af |-> 6]
Targets == {Target4, Target6}

\* Answer records of a decoded DNS message (dns.RR): *dns.A, *dns.AAAA, *dns.CNAME.
RecA     == [Rrtype |-> "A",     Name |-> "example.com.",     Addr |-> "5db8d822"]
RecAAAA  == [Rrtype |-> "AAAA",  Name |-> "v6.example.com.",  Addr |-> "26062800022000010248189325c81946"]
RecCNAME == [Rrtype |-> "CNAME", Name |-> "www.example.com.", Addr |-> ""]
Records  == {RecA, RecAAAA, RecCNAME}

\* net.IP.String() of the address bytes above (bytes written in hex).
IPString(ip) ==
    CASE ip = "5db8d822" -> "93.184.216.34"
      [] ip = "26062800022000010248189325c81946" -> "2606:2800:220:1:248:1893:25c8:1946"
      [] OTHER -> "<nil>"

\* What UnpackAbuf returns: (nil, err), (nil, nil) for an empty abuf, or (msg, nil).
AbufUndecodable == [err |-> TRUE,  msg |-> Nil]
AbufEmpty       == [err |-> FALSE, msg |-> Nil]
AbufMsg(answers) == [err |-> FALSE, msg |-> [nil |-> FALSE, Answer |-> answers]]
UnpackAbuf(r) == r.Abuf

Payloads == {AbufUndecodable, AbufEmpty} \cup {AbufMsg(a) : a \in SeqsUpTo(Records, MaxAnswers)}

Rts == {Tenths(-10), Tenths(0), Tenths(357)}

\* dns.Result
DnsResultOf(rt, abuf) == [nil |-> FALSE, Rt |-> rt, Abuf |-> abuf]
DnsResults == {DnsResultOf(rt, abuf) : rt \in Rts, abuf \in Payloads}

\* dns.Resultset: one target of a multi-target result.
SubResult(t, dnsError, result) ==
    [nil |-> FALSE, DstAddr |-> t.DstAddr, Af |-> t.Af, DnsError |-> dnsError, Result |-> result]

\* The sub-results the multi-target inputs are built from.
SubResults ==
    {Nil}
    \cup {SubResult(Target4, TRUE, Nil),
          SubResult(Target6, TRUE, DnsResultOf(Tenths(357), AbufMsg(<<RecA>>))),
          SubResult(Target4, FALSE, Nil)}
    \cup {SubResult(Target4, FALSE, DnsResultOf(rt, abuf)) :
            rt \in {Tenths(0), Tenths(357)},
            abuf \in {AbufUndecodable, AbufEmpty, AbufMsg(<<>>), AbufMsg(<<RecA>>),
                      AbufMsg(<<RecA, RecA>>), AbufMsg(<<RecCNAME, RecAAAA>>)}}
    \cup {SubResult(Target6, FALSE, DnsResultOf(Tenths(120), AbufMsg(<<RecAAAA>>))),
          SubResult(Target6, FALSE, DnsResultOf(Tenths(120), AbufMsg(<<RecAAAA, RecA>>))),
          SubResult(Target6, FALSE, DnsResultOf(Tenths(-10), AbufMsg(<<RecA>>)))}

\* measurement.Result
Result(t, rt, certs, ver, alert, resultsets, dnsResult) ==
    [DstAddr |-> t.DstAddr, Af |-> t.Af, Rt |-> rt, Cert |-> certs, Ver |-> ver,
     SslcertAlert |-> alert, DnsResultsets |-> resultsets, DnsResult |-> dnsResult]

VerStrings == {"1.2", "1.3", "bogus", "", "1e999"}
Alerts == {Nil, [nil |-> FALSE, Level |-> 2, Description |-> 42]}

CertResults ==
    {Result(t, rt, certs, ver, alert, <<>>, Nil) :
        t \in Targets, rt \in Rts, certs \in SeqsUpTo(Blobs, MaxChain),
        ver \in VerStrings, alert \in Alerts}

DnsSingleResults ==
    {Result(t, Tenths(0), <<>>, "", Nil, <<>>, d) : t \in Targets, d \in {Nil} \cup DnsResults}

DnsMultiResults ==
    {Result(Target4, Tenths(0), <<>>, "", Nil, rs, Nil) :
        rs \in SeqsUpTo(SubResults, MaxSubResults) \ {<<>>}}

DnsInputs == DnsSingleResults \cup DnsMultiResults

(***************************************************************************)
(* The descriptor table (the two init() functions) and metric creation.    *)
(***************************************************************************)
DnsLabels == <<"measurement", "probe", "dst_addr", "asn", "ip_version", "country_code",
               "lat", "long">>
DnsAnswerLabels == <<"measurement", "probe", "resolver", "asn", "ip_version",
                     "country_code", "lat", "long", "qname", "rr_type", "answer_ip">>
CertLabels == <<"measurement", "probe", "dst_addr", "asn", "ip_version", "country_code",
                "lat", "long", "cert_fingerprint", "cert_issuer">>

CertDescs == {"cert_success", "cert_version", "cert_rtt", "cert_alert_level",
              "cert_alert_description"}
DnsDescs == {"dns_success", "dns_rtt", "dns_answer"}

\* init() of package sslcert and of package dns.
InitDescs(kind) ==
    IF kind = "cert" THEN [d \in CertDescs |-> CertLabels]
    ELSE [d \in DnsDescs |-> IF d = "dns_answer" THEN DnsAnswerLabels ELSE DnsLabels]

\* prometheus.MustNewConstMetric panics when the number of label values is not the
\* number of labels of the descriptor.
MetricPanics(dd, desc, labelValues) == Len(labelValues) # Len(dd[desc])
Metric(desc, value, labelValues) == [desc |-> desc, value |-> value, labels |-> labelValues]

(***************************************************************************)
(* Label construction.                                                     *)
(***************************************************************************)
\* Mutated: the destination fields of the enclosing result are used for a sub-result.
LabelValuesOfResult(mm, f, dst, af) ==
    <<mm.id, Itoa(f.p.ID), f.res.DstAddr, Itoa(ASNForIPVersion(f.p, f.res.Af)),
      Itoa(f.res.Af), f.p.CountryCode, Latitude(f.p), Longitude(f.p)>>

\* labelValues of the DNS exporter for the target (dst, af).
LabelValues(mm, f, dst, af) ==
    <<mm.id, Itoa(f.p.ID), dst, Itoa(ASNForIPVersion(f.p, af)), Itoa(af),
      f.p.CountryCode, Latitude(f.p), Longitude(f.p)>>

\* Mutated: the record type and the queried name change places.
AnswerLabelValuesSwapped(mm, f, dst, af, rr, tag) ==
    <<mm.id, Itoa(f.p.ID), dst, Itoa(ASNForIPVersion(f.p, af)), Itoa(af),
      f.p.CountryCode, Latitude(f.p), Longitude(f.p), tag, rr.Name, IPString(rr.Addr)>>

\* The label values of an answer sample.
AnswerLabelValues(mm, f, dst, af, rr, tag) ==
    <<mm.id, Itoa(f.p.ID), dst, Itoa(ASNForIPVersion(f.p, af)), Itoa(af),
      f.p.CountryCode, Latitude(f.p), Longitude(f.p), rr.Name, tag, IPString(rr.Addr)>>

\* labelValues of the certificate exporter.
CertLabelValues(mm, f, fp, issuer) ==
    <<mm.id, Itoa(f.p.ID), f.res.DstAddr, Itoa(ASNForIPVersion(f.p, f.res.Af)),
      Itoa(f.res.Af), f.p.CountryCode, Latitude(f.p), Longitude(f.p), fp, issuer>>

\* Mutated: a round-trip time of zero counts as reachable.
ReachableOrZero(rtt) == GreaterThanZero(rtt) \/ rtt = Tenths(0)

\* if rtt > 0
Reachable(rtt) == GreaterThanZero(rtt)

\* Mutated: only a missing nested result is skipped.
SkipsOnlyNilResult(s) == s.Result.nil

\* if s.DnsError() != nil || s.Result() == nil
SkipsSubResult(s) == s.DnsError \/ s.Result.nil

\* Mutated: every record that is not AAAA is exported as an A record.
RecordTagAorAAAA(rr) == IF rr.Rrtype = "AAAA" THEN "AAAA" ELSE "A"

\* switch rr := ans.(type): "A" for *mdns.A, "AAAA" for *mdns.AAAA, "" for no case.
RecordTag(rr) ==
    CASE rr.Rrtype = "A" -> "A"
      [] rr.Rrtype = "AAAA" -> "AAAA"
      [] OTHER -> ""

(***************************************************************************)
(* The frame of an Export call: its arguments (res, p, ch) and locals      *)
(* (labelValues, rtt, the loop indices i over sub-results and j over       *)
(* answers).  i = 0 outside the sub-result loop.                           *)
(***************************************************************************)
IdleFrame ==
    [res |-> Nil, p |-> Nil, ch |-> 1, pc |-> "idle", i |-> 0, j |-> 0,
     labelValues |-> <<>>, rtt |-> Tenths(0)]

NewFrame(res, p, ch) ==
    [res |-> res, p |-> p, ch |-> ch, pc |-> "entry", i |-> 0, j |-> 0,
     labelValues |-> <<>>, rtt |-> Tenths(0)]

Finished(f) == f.pc \in {"done", "panic"}

\* ch <- prometheus.MustNewConstMetric(desc, GaugeValue, value, labelValues...),
\* after which the call goes on as frame next.  What is sent is marked with the
\* sub-result index (0: the result itself) it is sent for.
Send(dd, f, desc, value, labelValues, next) ==
    IF MetricPanics(dd, desc, labelValues)
    THEN [f |-> [f EXCEPT !.pc = "panic"], out |-> <<>>]
    ELSE [f |-> next, out |-> <<[tgt |-> f.i, s |-> Metric(desc, value, labelValues)]>>]

Goto(f) == [f |-> f, out |-> <<>>]

(***************************************************************************)
(* sslCertExporter.Export, one statement group per step.                   *)
(***************************************************************************)
CertStep(mm, dd, f) ==
    LET res == f.res IN
    CASE f.pc = "entry" ->
            LET fp == fingerprintFromResult(res)
                issuer == issuerOrgFromResult(res)
            IN  Goto([f EXCEPT !.pc = "version",
                               !.labelValues = CertLabelValues(mm, f, fp, issuer)])
      [] f.pc = "version" ->
            Send(dd, f, "cert_version", ParseFloat(res.Ver).f, f.labelValues,
                 [f EXCEPT !.pc = "alert_level"])
      [] f.pc = "alert_level" ->
            Send(dd, f, "cert_alert_level",
                 IF res.SslcertAlert.nil THEN Float(0) ELSE Float(res.SslcertAlert.Level),
                 f.labelValues, [f EXCEPT !.pc = "alert_description"])
      [] f.pc = "alert_description" ->
            Send(dd, f, "cert_alert_description",
                 IF res.SslcertAlert.nil THEN Float(0) ELSE Float(res.SslcertAlert.Description),
                 f.labelValues, [f EXCEPT !.pc = "reach"])
      [] f.pc = "reach" ->
            IF Reachable(res.Rt)
            THEN Send(dd, f, "cert_success", Float(1), f.labelValues, [f EXCEPT !.pc = "rtt"])
            ELSE Send(dd, f, "cert_success", Float(0), f.labelValues, [f EXCEPT !.pc = "done"])
      [] f.pc = "rtt" ->
            Send(dd, f, "cert_rtt", res.Rt, f.labelValues, [f EXCEPT !.pc = "done"])

(***************************************************************************)
(* dnsExporter.Export, one statement group per step.  The sub-result loop  *)
(* (i >= 1) and the single-target path (i = 0) run the same answer and     *)
(* reachability statements on their own target.                            *)
(***************************************************************************)
\* The target the answer and reachability statements work on.
CurrentTarget(f) ==
    IF f.i = 0
    THEN [DstAddr |-> f.res.DstAddr, Af |-> f.res.Af, Result |-> f.res.DnsResult]
    ELSE LET s == f.res.DnsResultsets[f.i]
         IN  [DstAddr |-> s.DstAddr, Af |-> s.Af, Result |-> s.Result]

\* Where the call goes on after the reachability samples of a target.
AfterTarget(f) ==
    IF f.i = 0 THEN [f EXCEPT !.pc = "done"]
    ELSE [f EXCEPT !.pc = "loop", !.i = f.i + 1, !.j = 0]

DnsStep(mm, dd, f) ==
    LET res == f.res
        rs  == res.DnsResultsets
    IN
    CASE f.pc = "entry" ->
            IF Len(rs) > 0 THEN Goto([f EXCEPT !.pc = "loop", !.i = 1])
            ELSE LET lv == LabelValues(mm, f, res.DstAddr, res.Af) IN
                 IF res.DnsResult.nil
                 THEN Goto([f EXCEPT !.pc = "reach", !.labelValues = lv, !.rtt = Tenths(0)])
                 ELSE Goto([f EXCEPT !.pc = "answers", !.labelValues = lv, !.j = 1,
                                     !.rtt = res.DnsResult.Rt])
      [] f.pc = "loop" ->
            IF f.i > Len(rs) THEN Goto([f EXCEPT !.pc = "done"])
            ELSE LET s == rs[f.i] IN
                 IF s.nil THEN Goto([f EXCEPT !.i = f.i + 1])
                 ELSE LET lv == LabelValues(mm, f, s.DstAddr, s.Af) IN
                      IF SkipsSubResult(s)
                      THEN Send(dd, f, "dns_success", Float(0), lv,
                                [f EXCEPT !.i = f.i + 1, !.labelValues = lv])
                      ELSE Goto([f EXCEPT !.pc = "answers", !.labelValues = lv, !.j = 1,
                                          !.rtt = s.Result.Rt])
      [] f.pc = "answers" ->
            LET t == CurrentTarget(f)
                u == UnpackAbuf(t.Result)
            IN  IF u.err \/ u.msg.nil THEN Goto([f EXCEPT !.pc = "reach"])
                ELSE IF f.j > Len(u.msg.Answer) THEN Goto([f EXCEPT !.pc = "reach"])
                ELSE LET rr  == u.msg.Answer[f.j]
                         tag == RecordTag(rr)
                     IN  IF tag = "" THEN Goto([f EXCEPT !.j = f.j + 1])
                         ELSE Send(dd, f, "dns_answer", Float(1),
                                   AnswerLabelValues(mm, f, t.DstAddr, t.Af, rr, tag),
                                   [f EXCEPT !.j = f.j + 1])
      [] f.pc = "reach" ->
            IF Reachable(f.rtt)
            THEN Send(dd, f, "dns_success", Float(1), f.labelValues, [f EXCEPT !.pc = "rtt"])
            ELSE Send(dd, f, "dns_success", Float(0), f.labelValues, AfterTarget(f))
      [] f.pc = "rtt" ->
            Send(dd, f, "dns_rtt", f.rtt, f.labelValues, AfterTarget(f))

Step(mm, dd, f) == IF mm.kind = "cert" THEN CertStep(mm, dd, f) ELSE DnsStep(mm, dd, f)

\* What call c hands to its sink, marked with the call.
Sent(c, out) == [k \in 1..Len(out) |-> [call |-> c, tgt |-> out[k].tgt, s |-> out[k].s]]

\* The call run from frame f up to and including its next send, or to its return:
\* the statements between two sends work on the frame alone.
RECURSIVE RunToSend(_, _, _)
RunToSend(mm, dd, f) ==
    LET r == Step(mm, dd, f)
    IN  IF r.out # <<>> \/ Finished(r.f) THEN r ELSE RunToSend(mm, dd, r.f)

\* A call run from frame f to its return with nothing else running.
RECURSIVE Run(_, _, _)
Run(mm, dd, f) ==
    IF Finished(f) THEN [f |-> f, out |-> <<>>]
    ELSE LET r    == RunToSend(mm, dd, f)
             rest == Run(mm, dd, r.f)
         IN  [f |-> rest.f, out |-> r.out \o rest.out]

(***************************************************************************)
(* Spec: one Export call, run to completion in one action.                 *)
(***************************************************************************)
\* The translators as constructed: &sslCertExporter{id}, &dnsExporter{id}.
Translators == {[kind |-> "cert", id |-> "1001"], [kind |-> "dns", id |-> "2002"]}
TranslatorOf(kind) == CHOOSE t \in Translators : t.kind = kind

Init ==
    /\ m \in Translators
    /\ descs = InitDescs(m.kind)
    /\ frames = [c \in Calls |-> IdleFrame]
    /\ sinks = [k \in Sinks |-> <<>>]

CertExport ==
    /\ m.kind = "cert"
    /\ frames[1].pc = "idle"
    /\ \E res \in CertResults, p \in Probes :
          LET r == Run(m, descs, NewFrame(res, p, 1))
          IN  /\ frames' = [frames EXCEPT ![1] = r.f]
              /\ sinks' = [sinks EXCEPT ![1] = sinks[1] \o Sent(1, r.out)]
    /\ UNCHANGED <<m, descs>>

DnsExport ==
    /\ m.kind = "dns"
    /\ frames[1].pc = "idle"
    /\ \E res \in DnsInputs, p \in Probes :
          LET r == Run(m, descs, NewFrame(res, p, 1))
          IN  /\ frames' = [frames EXCEPT ![1] = r.f]
              /\ sinks' = [sinks EXCEPT ![1] = sinks[1] \o Sent(1, r.out)]
    /\ UNCHANGED <<m, descs>>

Next == CertExport \/ DnsExport

Spec == Init /\ [][Next]_vars

(***************************************************************************)
(* SpecConc: several Export calls in flight on the same translator, their  *)
(* steps interleaved, each with the sink the caller gave it.               *)
(***************************************************************************)
ConcProbe == CHOOSE p \in Probes : p.ID = 6001

ConcCertResults ==
    { Result(Target4, Tenths(357), <<PemOf(DerOrgAndCN)>>, "1.3", Nil, <<>>, Nil),
      Result(Target6, Tenths(0), <<>>, "bogus", Nil, <<>>, Nil) }

ConcDnsResults ==
    { Result(Target4, Tenths(0), <<>>, "", Nil,
             <<SubResult(Target4, FALSE, DnsResultOf(Tenths(357), AbufMsg(<<RecA>>))),
               SubResult(Target6, TRUE, Nil)>>, Nil),
      Result(Target6, Tenths(0), <<>>, "", Nil, <<>>,
             DnsResultOf(Tenths(120), AbufMsg(<<RecCNAME>>))) }

\* Mutated: the call keeps the probe id of its result in the translator.
BeginDnsStoringId(c) ==
    /\ m.kind = "dns"
    /\ frames[c].pc = "idle"
    /\ \E res \in ConcDnsResults, k \in Sinks :
          frames' = [frames EXCEPT ![c] = NewFrame(res, ConcProbe, k)]
    /\ m' = [m EXCEPT !.id = Itoa(ConcProbe.ID)]
    /\ UNCHANGED <<descs, sinks>>

\* The collector calls dnsExporter.Export(res, p, ch).
BeginDns(c) ==
    /\ m.kind = "dns"
    /\ frames[c].pc = "idle"
    /\ \E res \in ConcDnsResults, k \in Sinks :
          frames' = [frames EXCEPT ![c] = NewFrame(res, ConcProbe, k)]
    /\ UNCHANGED <<m, descs, sinks>>

\* The collector calls sslCertExporter.Export(res, probe, ch).
BeginCert(c) ==
    /\ m.kind = "cert"
    /\ frames[c].pc = "idle"
    /\ \E res \in ConcCertResults, k \in Sinks :
          frames' = [frames EXCEPT ![c] = NewFrame(res, ConcProbe, k)]
    /\ UNCHANGED <<m, descs, sinks>>

\* Call c runs up to and including its next send, or to its return.  A send on a
\* full sink blocks.
ExportStep(c) ==
    /\ frames[c].pc # "idle"
    /\ ~Finished(frames[c])
    /\ Len(sinks[frames[c].ch]) < MaxBuffered
    /\ LET f == frames[c]
           r == RunToSend(m, descs, f)
       IN  /\ frames' = [frames EXCEPT ![c] = r.f]
           /\ sinks' = [sinks EXCEPT ![f.ch] = sinks[f.ch] \o Sent(c, r.out)]
    /\ UNCHANGED <<m, descs>>

NextConc == \E c \in Calls : BeginDns(c) \/ BeginCert(c) \/ ExportStep(c)

SpecConc == Init /\ [][NextConc]_vars

(***************************************************************************)
(* Vocabulary of the properties.  In Spec the call is call 1 on sink 1.    *)
(***************************************************************************)
Exported == Finished(frames[1])
TheResult == frames[1].res
TheProbe == frames[1].p
Output == sinks[1]
Subs == TheResult.DnsResultsets

IsMulti == m.kind = "dns" /\ Len(Subs) > 0
IsSingle == m.kind = "dns" /\ Len(Subs) = 0

IsSuccess(e) == e.s.desc \in {"cert_success", "dns_success"}
IsRtt(e) == e.s.desc \in {"cert_rtt", "dns_rtt"}
IsAnswer(e) == e.s.desc = "dns_answer"

\* The positions of the output sent for target tgt (0: the result itself).
PositionsOf(tgt) == {k \in 1..Len(Output) : Output[k].tgt = tgt}
OutputOf(tgt) == SelectSeq(Output, LAMBDA e : e.tgt = tgt)

\* The sub-results that pass the error check of the loop.
Processed == {i \in 1..Len(Subs) : ~Subs[i].nil /\ ~Subs[i].DnsError /\ ~Subs[i].Result.nil}
\* The sub-results the error check stops.
Stopped == {i \in 1..Len(Subs) : ~Subs[i].nil /\ (Subs[i].DnsError \/ Subs[i].Result.nil)}

\* The targets a translator takes past its error check, and the round-trip time,
\* destination, address family and DNS payload of each.
TargetsPast == IF IsMulti THEN Processed ELSE {0}
RtOf(tgt) ==
    IF m.kind = "cert" THEN TheResult.Rt
    ELSE IF tgt = 0 THEN (IF TheResult.DnsResult.nil THEN Tenths(0) ELSE TheResult.DnsResult.Rt)
    ELSE Subs[tgt].Result.Rt
DstOf(tgt) == IF tgt = 0 THEN TheResult.DstAddr ELSE Subs[tgt].DstAddr
AfOf(tgt) == IF tgt = 0 THEN TheResult.Af ELSE Subs[tgt].Af
AnswersOf(tgt) ==
    LET r == IF tgt = 0 THEN TheResult.DnsResult ELSE Subs[tgt].Result
    IN  IF r.nil THEN <<>>
        ELSE IF r.Abuf.err \/ r.Abuf.msg.nil THEN <<>>
        ELSE r.Abuf.msg.Answer
AddressRecords(answers) == SelectSeq(answers, LAMBDA rr : rr.Rrtype \in {"A", "AAAA"})

Positive(rt) == rt.cls = "fin" /\ rt.tenths > 0

\* The value a label of the declared schema stands for.
LabelOf(name, tgt, fp, issuer, rr) ==
    CASE name = "measurement" -> m.id
      [] name = "probe" -> Itoa(TheProbe.ID)
      [] name \in {"dst_addr", "resolver"} -> DstOf(tgt)
      [] name = "asn" -> Itoa(IF AfOf(tgt) = 6 THEN TheProbe.ASN6 ELSE TheProbe.ASN4)
      [] name = "ip_version" -> Itoa(AfOf(tgt))
      [] name = "country_code" -> TheProbe.CountryCode
      [] name = "lat" -> TheProbe.Lat
      [] name = "long" -> TheProbe.Long
      [] name = "cert_fingerprint" -> fp
      [] name = "cert_issuer" -> issuer
      [] name = "qname" -> rr.Name
      [] name = "rr_type" -> rr.Rrtype
      [] name = "answer_ip" -> IPString(rr.Addr)

LabelsBySchema(schema, tgt, fp, issuer, rr) ==
    [k \in 1..Len(schema) |-> LabelOf(schema[k], tgt, fp, issuer, rr)]

\* The eight labels every DNS sample of target tgt starts with.
TargetLabels(tgt) == LabelsBySchema(descs["dns_success"], tgt, "", "", RecCNAME)

(***************************************************************************)
(* C1.  For every target taken past the error check Export emits exactly   *)
(* one success sample.  With a round-trip time > 0 its value is 1 and the  *)
(* next sample sent is the one rtt sample of the target, valued with that  *)
(* round-trip time and carrying the same label values; with a round-trip   *)
(* time <= 0 its value is 0 and the target has no rtt sample.              *)
(***************************************************************************)
ReachabilityOf(tgt) ==
    LET succ == {k \in PositionsOf(tgt) : IsSuccess(Output[k])}
        rtts == {k \in PositionsOf(tgt) : IsRtt(Output[k])}
    IN  /\ Cardinality(succ) = 1
        /\ \A k \in succ :
              IF Positive(RtOf(tgt))
              THEN /\ Output[k].s.value = Float(1)
                   /\ rtts = {k + 1}
                   /\ Output[k + 1].s.value = RtOf(tgt)
                   /\ Output[k + 1].s.labels = Output[k].s.labels
              ELSE /\ Output[k].s.value = Float(0)
                   /\ rtts = {}

C1_SuccessAndRtt == Exported => \A tgt \in TargetsPast : ReachabilityOf(tgt)

C1_Witness ==
    /\ Exported
    /\ IsMulti
    /\ \E i, j \in Processed : Positive(RtOf(i)) /\ ~Positive(RtOf(j))

(***************************************************************************)
(* C2.  Every Export call completes and emits at least one success sample, *)
(* multi-target results whose sub-results are null included.               *)
(***************************************************************************)
C2_AlwaysASuccessSample ==
    Exported => /\ frames[1].pc = "done"
                /\ \E k \in 1..Len(Output) : IsSuccess(Output[k])

(***************************************************************************)
(* C3.  A non-null sub-result with a decode error or without a nested      *)
(* result yields exactly one sample, success = 0 with the sub-result's own *)
(* labels, whatever its siblings hold, and the sub-results after it are    *)
(* still processed.                                                        *)
(***************************************************************************)
C3_StoppedSubResult ==
    (Exported /\ IsMulti) =>
        /\ frames[1].pc = "done"
        /\ \A i \in Stopped :
              /\ Len(OutputOf(i)) = 1
              /\ OutputOf(i)[1].s = Metric("dns_success", Float(0), TargetLabels(i))
        /\ \A i \in Processed : OutputOf(i) # <<>>

C3_Witness ==
    /\ Exported
    /\ IsMulti
    /\ Len(Subs) = 2
    /\ 1 \in Stopped /\ Subs[1].DnsError /\ ~Subs[1].Result.nil
    /\ 2 \in Processed /\ Positive(RtOf(2)) /\ Len(AnswersOf(2)) > 0

(***************************************************************************)
(* C4.  The answer samples of a target are, in the order of the payload    *)
(* and with duplicates kept, one per A or AAAA record and none for another *)
(* record: value 1, rr_type the record's type, qname and answer_ip from    *)
(* the record.  An undecodable or absent payload gives no answer sample.   *)
(***************************************************************************)
AnswerSamplesOf(tgt) ==
    LET got  == SelectSeq(OutputOf(tgt), IsAnswer)
        want == AddressRecords(AnswersOf(tgt))
    IN  /\ Len(got) = Len(want)
        /\ \A k \in 1..Len(want) :
              /\ got[k].s.value = Float(1)
              /\ got[k].s.labels = TargetLabels(tgt)
                    \o <<want[k].Name, want[k].Rrtype, IPString(want[k].Addr)>>

C4_AnswerPerAddressRecord ==
    (Exported /\ m.kind = "dns") => \A tgt \in TargetsPast : AnswerSamplesOf(tgt)

C4_Witness ==
    /\ Exported
    /\ IsMulti
    /\ \E i \in Processed : AnswersOf(i) = <<RecCNAME, RecAAAA>>
    /\ \E i \in Processed : AnswersOf(i) = <<RecA, RecA>>

(***************************************************************************)
(* C5.  Every sample carries as many label values as its metric's declared *)
(* schema has labels (10 for the certificate metrics, 8 for dns success    *)
(* and rtt, 11 for dns answer), each at the position of the label it       *)
(* stands for, an unavailable field included.                              *)
(***************************************************************************)
SchemaLength(desc) ==
    IF desc \in CertDescs THEN 10 ELSE IF desc = "dns_answer" THEN 11 ELSE 8

FollowsSchema(e) ==
    LET schema == descs[e.s.desc]
        fp     == fingerprintFromResult(TheResult)
        issuer == issuerOrgFromResult(TheResult)
    IN  /\ Len(e.s.labels) = Len(schema)
        /\ Len(e.s.labels) = SchemaLength(e.s.desc)
        /\ IF IsAnswer(e)
           THEN \E k \in 1..Len(AnswersOf(e.tgt)) :
                    e.s.labels = LabelsBySchema(schema, e.tgt, fp, issuer, AnswersOf(e.tgt)[k])
           ELSE e.s.labels = LabelsBySchema(schema, e.tgt, fp, issuer, RecCNAME)

C5_LabelsFollowSchema ==
    Exported => /\ frames[1].pc = "done"
                /\ \A k \in 1..Len(Output) : FollowsSchema(Output[k])

C5_Witness ==
    /\ Exported
    /\ m.kind = "cert"
    /\ TheResult.Cert = <<BadBlob>>
    /\ Len(Output) = 5
    /\ \A k \in 1..Len(Output) :
          Output[k].s.labels[9] = "" /\ Output[k].s.labels[10] = "unknown"

(***************************************************************************)
(* C6.  The fingerprint label and the issuer label come from one blob: the *)
(* blob hashed into the fingerprint is the blob the issuer is read from.   *)
(***************************************************************************)
\* The blobs that decode and parse as a certificate.
Usable(certs) ==
    {k \in 1..Len(certs) :
        (certs[k].enc = "pem" \/ certs[k].enc = "b64") /\ certs[k].der.cert}
FirstUsable(certs) == CHOOSE k \in Usable(certs) : \A l \in Usable(certs) : k <= l

C6_OneCertificateIdentity ==
    (Exported /\ m.kind = "cert" /\ Usable(TheResult.Cert) # {}) =>
        \A k \in 1..Len(Output) :
            Output[k].s.labels[9] =
                Sha256Hex(TheResult.Cert[FirstUsable(TheResult.Cert)].der)

(***************************************************************************)
(* C7.  Samples reach the sink target by target in the order of the        *)
(* sub-results, never interleaved, each with its own target's labels.      *)
(* As claimed: a reachable target sends success = 1, rtt, then its answer  *)
(* samples.  As the code has it: its answer samples, then success = 1,     *)
(* then rtt.                                                               *)
(***************************************************************************)
TargetByTarget ==
    /\ \A k, l \in 1..Len(Output) : k < l => Output[k].tgt <= Output[l].tgt
    /\ \A k \in 1..Len(Output) :
          SubSeq(Output[k].s.labels, 1, 8) = TargetLabels(Output[k].tgt)

Descs(out) == [k \in 1..Len(out) |-> out[k].s.desc]
Repeat(x, n) == [k \in 1..n |-> x]
AnswerCount(tgt) == Len(AddressRecords(AnswersOf(tgt)))

C7_SuccessRttThenAnswers ==
    (Exported /\ IsMulti) =>
        /\ TargetByTarget
        /\ \A i \in Processed :
              Positive(RtOf(i)) =>
                  Descs(OutputOf(i)) =
                      <<"dns_success", "dns_rtt">> \o Repeat("dns_answer", AnswerCount(i))

C7_AnswersThenSuccessRtt ==
    (Exported /\ IsMulti) =>
        /\ TargetByTarget
        /\ \A i \in Processed :
              Positive(RtOf(i)) =>
                  Descs(OutputOf(i)) =
                      Repeat("dns_answer", AnswerCount(i)) \o <<"dns_success", "dns_rtt">>
        /\ (/\ Len(Subs) = 2
            /\ 1 \in Processed /\ Positive(RtOf(1)) /\ AnswersOf(1) = <<RecA>>
            /\ 2 \in Stopped /\ Subs[2].DnsError)
           => /\ Descs(Output) = <<"dns_answer", "dns_success", "dns_rtt", "dns_success">>
              /\ Output[1].s.value = Float(1)
              /\ Output[2].s.value = Float(1)
              /\ Output[3].s.value = RtOf(1)
              /\ Output[4].s.value = Float(0)
              /\ \A k \in 1..3 : SubSeq(Output[k].s.labels, 1, 8) = TargetLabels(1)
              /\ Output[4].s.labels = TargetLabels(2)

C7_Witness ==
    /\ Exported
    /\ IsMulti
    /\ Len(Subs) = 2
    /\ 1 \in Processed /\ Positive(RtOf(1)) /\ AnswersOf(1) = <<RecA>>
    /\ 2 \in Stopped /\ Subs[2].DnsError
    /\ DstOf(1) # DstOf(2)
    /\ Len(Output) = 4

(***************************************************************************)
(* C8.  Certificate Export emits the version, alert_level,                 *)
(* alert_description and success samples exactly once each whatever the    *)
(* blobs and the version string, a failed part replaced by its default:    *)
(* fingerprint "", issuer "unknown", version value 0.                      *)
(***************************************************************************)
CountOf(desc) == Cardinality({k \in 1..Len(Output) : Output[k].s.desc = desc})

C8_DefaultsOnFailure ==
    (Exported /\ m.kind = "cert") =>
        LET certs == TheResult.Cert IN
        /\ frames[1].pc = "done"
        /\ \A d \in {"cert_version", "cert_alert_level", "cert_alert_description",
                     "cert_success"} : CountOf(d) = 1
        /\ \A k \in 1..Len(Output) :
              /\ (Len(certs) = 0 \/ certs[1].enc = "bad") => Output[k].s.labels[9] = ""
              /\ Usable(certs) = {} => Output[k].s.labels[10] = "unknown"
              /\ (Output[k].s.desc = "cert_version" /\ ParseFloat(TheResult.Ver).err # "nil")
                    => Output[k].s.value = Tenths(0)

(***************************************************************************)
(* C9.  The issuer label is never empty.  It is read from the first blob   *)
(* that decodes and parses as a certificate: the issuer organization if    *)
(* non-empty, else the issuer common name if non-empty, else "unknown";    *)
(* "unknown" too when no blob is usable.                                   *)
(***************************************************************************)
ExpectedIssuer(certs) ==
    IF Usable(certs) = {} THEN "unknown"
    ELSE LET c == certs[FirstUsable(certs)].der IN
         IF c.O # <<>> /\ c.O[1] # "" THEN c.O[1]
         ELSE IF c.CN # "" THEN c.CN
         ELSE "unknown"

C9_IssuerLabel ==
    (Exported /\ m.kind = "cert") =>
        \A k \in 1..Len(Output) :
            /\ Output[k].s.labels[10] # ""
            /\ Output[k].s.labels[10] = ExpectedIssuer(TheResult.Cert)

C9_Witness ==
    /\ Exported
    /\ m.kind = "cert"
    /\ TheResult.Cert = <<BadBlob, PemOf(DerOrgAndCN)>>
    /\ Len(Output) >= 4
    /\ \A k \in 1..Len(Output) : Output[k].s.labels[10] = "Lets Encrypt"

(***************************************************************************)
(* C10.  Export calls in flight together on one translator do not affect   *)
(* one another: the translator and the descriptor table stay as            *)
(* constructed, and what each call has handed to its sink is, in order,    *)
(* what the call hands over when run alone on the same input.              *)
(***************************************************************************)
HandedOver(c) == SelectSeq(sinks[frames[c].ch], LAMBDA e : e.call = c)
Alone(c) ==
    LET f == frames[c]
    IN  Sent(c, Run(TranslatorOf(m.kind), InitDescs(m.kind), NewFrame(f.res, f.p, f.ch)).out)
IsPrefix(a, b) == Len(a) <= Len(b) /\ a = SubSeq(b, 1, Len(a))

C10_CallsIndependent ==
    /\ m = TranslatorOf(m.kind)
    /\ descs = InitDescs(m.kind)
    /\ \A c \in Calls :
          frames[c].pc # "idle" =>
              /\ frames[c].pc # "panic"
              /\ IsPrefix(HandedOver(c), Alone(c))
              /\ frames[c].pc = "done" => HandedOver(c) = Alone(c)

\* Two finished calls whose samples alternate on the sink they share.
C10_Witness ==
    /\ frames[1].pc = "done" /\ frames[2].pc = "done"
    /\ frames[1].ch = frames[2].ch
    /\ frames[1].res # frames[2].res
    /\ LET q == sinks[frames[1].ch]
       IN  \E k \in 1..Len(q) :
              k + 2 <= Len(q) /\ q[k].call = 1 /\ q[k + 1].call = 2 /\ q[k + 2].call = 1

====
